---- MODULE Spec2Model ----
(***************************************************************************)
(* G1HeapEvaluationTask: the periodic heap-resize evaluation task of G1.   *)
(*                                                                         *)
(* The model follows G1HeapEvaluationTask::execute() line by line; the     *)
(* program counter pc carries the source line the service thread is at.    *)
(* The collaborators that execute() calls (sizing policy, heap, service    *)
(* thread) live outside the two source files and are modelled by their     *)
(* documented interface.                                                   *)
(***************************************************************************)
EXTENDS Integers, Sequences, FiniteSets, TLC

(* ------------------------------ bounds --------------------------------- *)

\* largest resize amount the policy returns (in heap regions)
MaxAmount == 2

\* largest heap capacity (in heap regions)
MaxCapacity == 2

\* most shrink requests waiting for a safepoint at once
MaxPending == 2

\* largest value of G1TimeBasedEvaluationIntervalMillis
MaxInterval == 2

Amounts == 0..MaxAmount

Intervals == 1..MaxInterval

Capacities == 0..MaxCapacity

(* ------------------------------- state --------------------------------- *)

VARIABLES
  flag,            \* G1UseTimeBasedHeapSizing
  interval,        \* G1TimeBasedEvaluationIntervalMillis
  createdInterval, \* history: value of the interval when the task was constructed
  taskHoldsLock,   \* the task holds the heap's lock
  callbackRecorded,\* amounts received by the G1HeapOperationCallback in use
  capacity,        \* committed heap capacity
  pendingShrinks,  \* shrink requests not yet serviced by the heap
  registered,      \* the task is registered with the service thread
  pending,         \* scheduled invocations of the task that have not run yet
  pc,              \* position of the service thread in execute(); "idle" outside
  rmDepth,         \* ResourceMark scopes held by the task
  should_expand,   \* local of execute()
  resize_amount,   \* local of execute()
  seenCapacity,    \* the capacity the policy read for the decision in hand
  log              \* calls and reads made by the current (or last) cycle, in order

vars == <<flag, interval, createdInterval, taskHoldsLock, callbackRecorded, capacity, pendingShrinks, registered,
          pending, pc, rmDepth, should_expand, resize_amount, seenCapacity, log>>

env == <<flag, interval, createdInterval, taskHoldsLock, callbackRecorded, capacity, pendingShrinks, registered>>

locals == <<should_expand, resize_amount, seenCapacity>>

(* --------------------------- the two references ------------------------ *)

\* the task's _g1h field
G1H == "g1h"

\* the task's _heap_sizing_policy field
HeapSizingPolicy == "heap_sizing_policy"

\* _g1h->workers()
Workers(g1h) == <<g1h, "workers">>

(* ------------------------------ log helpers ---------------------------- *)

Calls(l, op) == SelectSeq(l, LAMBDA e : e[1] = op)

Count(l, op) == Len(Calls(l, op))

(* ----------------------- control flow of execute() --------------------- *)

\* mutant: the flag test is dropped
CheckTarget_NoTest(f) == "L45"

\* line 41: if (!G1UseTimeBasedHeapSizing) return;
CheckTarget(f) == IF ~f THEN "L42" ELSE "L45"

\* mutant: the direction test is inverted
BranchTarget_Inverted(amount, expand) ==
  IF amount > 0 THEN (IF expand THEN "L56" ELSE "L53") ELSE "L60"

\* mutant: the amount test admits zero
BranchTarget_ZeroActs(amount, expand) ==
  IF amount >= 0 THEN (IF expand THEN "L53" ELSE "L56") ELSE "L60"

\* lines 50, 51, 54: which call the decision leads to
BranchTarget(amount, expand) ==
  IF amount > 0 THEN (IF expand THEN "L53" ELSE "L56") ELSE "L60"

\* mutant: a failed expand leaves execute() without rescheduling
AfterExpand_FailSkips(ok) == IF ok THEN "L60" ELSE "L61"

\* mutant: the else of line 54 is lost and expand falls through to the shrink
AfterExpand_FallsThrough(ok) == "L56"

\* line 53 is followed by line 60 whatever expand did (its result is not read)
AfterExpand(ok) == "L60"

\* mutant: the interval is the one cached when the task was created
ScheduleArg_Cached == createdInterval

\* line 60: the argument is the global read at the call
ScheduleArg == interval

\* mutant: the scope is never released
ReleaseScope_Leak(d) == d

\* line 61: ~ResourceMark at the end of the block
ReleaseScope(d) == d - 1

(* ----------------------- the collaborators' effects -------------------- *)

\* G1CollectedHeap::expand: the commit completes, or fails and commits nothing
HeapExpand(c, amount, ok) == IF ok THEN c + amount ELSE c

\* G1CollectedHeap::request_heap_shrink: the request is queued for a later
\* safepoint and the call returns
HeapRequestShrink(q, amount) == Append(q, amount)

\* G1ServiceTask::schedule: one more invocation of the task is due
ServiceSchedule(p) == p + 1

(* -------------------------------- Init --------------------------------- *)

\* lines 32-36: the constructor stores the two references; the task is then
\* registered and scheduled once
Init ==
  /\ flag \in BOOLEAN
  /\ interval \in Intervals
  /\ createdInterval = interval
  /\ taskHoldsLock = FALSE
  /\ callbackRecorded = <<>>
  /\ capacity \in Capacities
  /\ pendingShrinks = <<>>
  /\ registered = TRUE
  /\ pending = 1
  /\ pc = "idle"
  /\ rmDepth = 0
  /\ should_expand = FALSE
  /\ resize_amount = 0
  /\ seenCapacity = 0
  /\ log = <<>>

(* ---------------------------- service thread --------------------------- *)

\* the service thread takes a due invocation of the task and calls execute()
Run ==
  /\ pc = "idle"
  /\ registered
  /\ pending > 0
  /\ pending' = pending - 1
  /\ pc' = "L39"
  /\ UNCHANGED <<env, rmDepth, locals, log>>

\* shutdown: the task is unregistered between two runs
Unregister ==
  /\ pc = "idle"
  /\ registered
  /\ registered' = FALSE
  /\ pending' = 0
  /\ UNCHANGED <<flag, interval, createdInterval, taskHoldsLock, callbackRecorded, capacity, pendingShrinks,
                 pc, rmDepth, locals, log>>

(* ------------------------------ execute() ------------------------------ *)

\* mutant: execute() re-arms itself on entry as well as at line 60
Start_SchedulesFirst ==
  /\ pc = "L39"
  /\ pc' = "L41"
  /\ pending' = ServiceSchedule(pending)
  /\ log' = <<>>
  /\ UNCHANGED <<env, rmDepth, locals>>

\* line 39: log_debug("Starting heap evaluation"); a new cycle's record begins
Start ==
  /\ pc = "L39"
  /\ pc' = "L41"
  /\ log' = <<>>
  /\ UNCHANGED <<env, pending, rmDepth, locals>>

\* line 41: the flag is read and tested
CheckFlag ==
  /\ pc = "L41"
  /\ log' = Append(log, <<"read_flag", flag>>)
  /\ pc' = CheckTarget(flag)
  /\ UNCHANGED <<env, pending, rmDepth, locals>>

\* line 42: return
EarlyReturn ==
  /\ pc = "L42"
  /\ pc' = "idle"
  /\ UNCHANGED <<env, pending, rmDepth, locals, log>>

\* line 45: ResourceMark rm;
EnterScope ==
  /\ pc = "L45"
  /\ rmDepth' = rmDepth + 1
  /\ pc' = "L48"
  /\ UNCHANGED <<env, pending, locals, log>>

\* the decisions the policy may return in the current state: any amount and
\* any direction, a shrink only while the heap can queue one more request
Decisions ==
  { d \in Amounts \X BOOLEAN :
      (d[1] > 0 /\ ~d[2]) => Len(pendingShrinks) < MaxPending }

\* mutant: the task takes the heap's lock for the decision and keeps it
Evaluate_Locks ==
  /\ pc = "L48"
  /\ \E d \in Decisions :
       /\ resize_amount' = d[1]
       /\ should_expand' = d[2]
       /\ seenCapacity' = capacity
       /\ log' = Append(log, <<"evaluate_heap_resize", d[1], d[2]>>)
  /\ taskHoldsLock' = TRUE
  /\ pc' = "L50"
  /\ UNCHANGED <<flag, interval, createdInterval, callbackRecorded, capacity,
                 pendingShrinks, registered, pending, rmDepth>>

\* lines 47-48: should_expand = false; resize_amount = evaluate_heap_resize(should_expand)
Evaluate ==
  /\ pc = "L48"
  /\ \E d \in Decisions :
       /\ resize_amount' = d[1]
       /\ should_expand' = d[2]
       /\ seenCapacity' = capacity
       /\ log' = Append(log, <<"evaluate_heap_resize", d[1], d[2]>>)
  /\ pc' = "L50"
  /\ UNCHANGED <<env, pending, rmDepth>>

\* mutant: the decision is dropped while an earlier shrink is still pending
Branch_DependsOnPending ==
  /\ pc = "L50"
  /\ pc' = IF pendingShrinks # <<>> THEN "L60"
            ELSE BranchTarget(resize_amount, should_expand)
  /\ UNCHANGED <<env, pending, rmDepth, locals, log>>

\* lines 50-51, 54: the branch on the decision
Branch ==
  /\ pc = "L50"
  /\ pc' = BranchTarget(resize_amount, should_expand)
  /\ UNCHANGED <<env, pending, rmDepth, locals, log>>

\* mutant: expand is started and execute() goes on without its return
ExpandCall_NoWait ==
  /\ pc = "L53"
  /\ log' = Append(log, <<"expand", resize_amount, Workers(G1H)>>)
  /\ pc' = "L60"
  /\ UNCHANGED <<env, pending, rmDepth, locals>>

\* line 53: _g1h->expand(resize_amount, _g1h->workers()) is entered
ExpandCall ==
  /\ pc = "L53"
  /\ log' = Append(log, <<"expand", resize_amount, Workers(G1H)>>)
  /\ pc' = "inExpand"
  /\ UNCHANGED <<env, pending, rmDepth, locals>>

\* expand returns: the commit completed, or it failed and committed nothing
ExpandReturn ==
  /\ pc = "inExpand"
  /\ \E ok \in BOOLEAN :
       /\ ok => capacity + resize_amount <= MaxCapacity
       /\ capacity' = HeapExpand(capacity, resize_amount, ok)
       /\ log' = Append(log, <<"expand_returned", ok>>)
       /\ pc' = AfterExpand(ok)
  /\ UNCHANGED <<flag, interval, createdInterval, taskHoldsLock, callbackRecorded, pendingShrinks, registered,
                 pending, rmDepth, locals>>

\* mutant: the shrink goes through G1HeapOperationCallback::request_shrink
RequestShrink_ViaCallback ==
  /\ pc = "L56"
  /\ callbackRecorded' = Append(callbackRecorded, resize_amount)
  /\ log' = Append(log, <<"request_shrink", resize_amount>>)
  /\ pc' = "L60"
  /\ UNCHANGED <<flag, interval, createdInterval, taskHoldsLock, capacity,
                 pendingShrinks, registered, pending, rmDepth, locals>>

\* line 56: _g1h->request_heap_shrink(resize_amount); the request is queued
RequestShrink ==
  /\ pc = "L56"
  /\ pendingShrinks' = HeapRequestShrink(pendingShrinks, resize_amount)
  /\ log' = Append(log, <<"request_heap_shrink", resize_amount>>)
  /\ pc' = "L60"
  /\ UNCHANGED <<flag, interval, createdInterval, taskHoldsLock, callbackRecorded, capacity, registered,
                 pending, rmDepth, locals>>

\* mutant: the task waits until the heap has serviced every shrink
Reschedule_Waits ==
  /\ pc = "L60"
  /\ pendingShrinks = <<>>
  /\ pending' = ServiceSchedule(pending)
  /\ log' = Append(log, <<"schedule", ScheduleArg>>)
  /\ pc' = "L61"
  /\ UNCHANGED <<env, rmDepth, locals>>

\* mutant: the flag is read again before rescheduling
Reschedule_Rechecks ==
  /\ pc = "L60"
  /\ pending' = IF flag THEN ServiceSchedule(pending) ELSE pending
  /\ log' = IF flag THEN Append(log, <<"schedule", ScheduleArg>>) ELSE log
  /\ pc' = "L61"
  /\ UNCHANGED <<env, rmDepth, locals>>

\* line 60: schedule(G1TimeBasedEvaluationIntervalMillis)
Reschedule ==
  /\ pc = "L60"
  /\ pending' = ServiceSchedule(pending)
  /\ log' = Append(log, <<"schedule", ScheduleArg>>)
  /\ pc' = "L61"
  /\ UNCHANGED <<env, rmDepth, locals>>

\* line 61: the block ends, rm is destroyed, execute() returns
Return ==
  /\ pc = "L61"
  /\ rmDepth' = ReleaseScope(rmDepth)
  /\ should_expand' = FALSE
  /\ resize_amount' = 0
  /\ seenCapacity' = 0
  /\ pc' = "idle"
  /\ UNCHANGED <<env, pending, log>>

TaskStep ==
  \/ Start
  \/ CheckFlag
  \/ EarlyReturn
  \/ EnterScope
  \/ Evaluate
  \/ Branch
  \/ ExpandCall
  \/ ExpandReturn
  \/ RequestShrink
  \/ Reschedule
  \/ Return

(* ------------------------------ environment ---------------------------- *)

\* the flag is switched from outside
ToggleFlag ==
  /\ flag' = ~flag
  /\ UNCHANGED <<interval, createdInterval, taskHoldsLock, callbackRecorded, capacity, pendingShrinks, registered,
                 pending, pc, rmDepth, locals, log>>

\* the interval is reconfigured from outside
SetInterval ==
  /\ \E i \in Intervals \ {interval} : interval' = i
  /\ UNCHANGED <<flag, createdInterval, taskHoldsLock, callbackRecorded, capacity, pendingShrinks, registered,
                 pending, pc, rmDepth, locals, log>>

\* at a safepoint the heap services the oldest shrink request: it uncommits
\* what it can, or abandons the request
ServiceShrink ==
  /\ ~taskHoldsLock
  /\ pendingShrinks # <<>>
  /\ \E done \in BOOLEAN :
       capacity' = IF done /\ capacity >= Head(pendingShrinks)
                     THEN capacity - Head(pendingShrinks)
                     ELSE capacity
  /\ pendingShrinks' = Tail(pendingShrinks)
  /\ UNCHANGED <<flag, interval, createdInterval, taskHoldsLock, callbackRecorded, registered,
                 pending, pc, rmDepth, locals, log>>

\* a garbage collection pause resizes the heap on behalf of the application
GCResize ==
  /\ ~taskHoldsLock
  /\ \E c \in Capacities \ {capacity} : capacity' = c
  /\ UNCHANGED <<flag, interval, createdInterval, taskHoldsLock, callbackRecorded, pendingShrinks, registered,
                 pending, pc, rmDepth, locals, log>>

(* ---------------------------- specification ---------------------------- *)

Next ==
  \/ Run
  \/ Unregister
  \/ Start
  \/ CheckFlag
  \/ EarlyReturn
  \/ EnterScope
  \/ Evaluate
  \/ Branch
  \/ ExpandCall
  \/ ExpandReturn
  \/ RequestShrink
  \/ Reschedule
  \/ Return
  \/ ToggleFlag
  \/ SetInterval
  \/ ServiceShrink
  \/ GCResize

Spec == Init /\ [][Next]_vars

\* the service thread runs every due invocation and execute() runs to its end;
\* nothing is assumed about the environment or about when shrinks are serviced
FairSpec == Spec /\ WF_vars(Run) /\ WF_vars(TaskStep)

TypeOK ==
  /\ flag \in BOOLEAN
  /\ interval \in Intervals
  /\ createdInterval \in Intervals
  /\ capacity \in Capacities
  /\ pendingShrinks \in Seq(1..MaxAmount)
  /\ Len(pendingShrinks) <= MaxPending
  /\ registered \in BOOLEAN
  /\ pending \in 0..1
  /\ pc \in {"idle", "L39", "L41", "L42", "L45", "L48", "L50", "L53",
             "inExpand", "L56", "L60", "L61"}
  /\ rmDepth \in 0..1
  /\ should_expand \in BOOLEAN
  /\ resize_amount \in Amounts
  /\ seenCapacity \in Capacities
  /\ taskHoldsLock \in BOOLEAN
  /\ callbackRecorded \in Seq(1..MaxAmount)

(* ------------------------ reading the cycle record --------------------- *)

\* the cycle in the record read the flag as disabled
DisabledCycle ==
  /\ Count(log, "read_flag") > 0
  /\ Calls(log, "read_flag")[1][2] = FALSE

\* the cycle in the record evaluated the policy
Decided == Count(log, "evaluate_heap_resize") > 0

DecidedAmount == Calls(log, "evaluate_heap_resize")[1][2]

DecidedExpand == Calls(log, "evaluate_heap_resize")[1][3]

GrowDecided == Decided /\ DecidedAmount > 0 /\ DecidedExpand

ShrinkDecided == Decided /\ DecidedAmount > 0 /\ ~DecidedExpand

ZeroDecided == Decided /\ DecidedAmount = 0

\* execute() has reached its return, or has returned
CycleEnded == pc \in {"L61", "idle", "L39"} /\ log # <<>>

ExpandFailed ==
  /\ Count(log, "expand_returned") > 0
  /\ Calls(log, "expand_returned")[1][2] = FALSE

ExpandSucceeded ==
  /\ Count(log, "expand_returned") > 0
  /\ Calls(log, "expand_returned")[1][2] = TRUE

\* some step of execute() is taken
Stepped == pc' # pc

(* -------------------------------- claims ------------------------------- *)

\* C1: a cycle that found the flag disabled still calls schedule() exactly
\* once before it returns, so that an invocation is pending afterwards.
C1_DisabledCycleRearms ==
  (pc = "idle" /\ registered /\ DisabledCycle)
    => (Count(log, "schedule") = 1 /\ pending = 1)

\* C2: while the task stays registered, once a cycle has found the flag
\* disabled and the flag is enabled from then on, the policy is evaluated
\* again by a later cycle.
C2_EnablementTakesEffect ==
  ([]registered) => [](((DisabledCycle /\ pc = "idle") /\ []flag) => <>(pc = "L50"))

\* C3: a cycle whose decision is Grow with a positive amount makes exactly one
\* expand call, with that amount and the heap's workers, makes no shrink
\* request, never calls expand a second time, and calls schedule() exactly
\* once whether expand succeeded or failed.
C3_GrowOnceThenReschedule ==
  GrowDecided =>
    /\ Count(log, "request_heap_shrink") = 0
    /\ Count(log, "expand") <= 1
    /\ Count(log, "schedule") <= 1
    /\ CycleEnded =>
         /\ Calls(log, "expand") = << <<"expand", DecidedAmount, Workers(G1H)>> >>
         /\ Count(log, "expand_returned") = 1
         /\ Count(log, "schedule") = 1

C3_Witness ==
  pc = "idle" /\ GrowDecided /\ ExpandFailed /\ Count(log, "schedule") = 1

\* C4: a cycle whose decision is Shrink with a positive amount issues exactly
\* one shrink request, with that amount, makes no expand call, and calls
\* schedule() exactly once.
C4_ShrinkOnceThenReschedule ==
  ShrinkDecided =>
    /\ Count(log, "expand") = 0
    /\ Count(log, "request_heap_shrink") <= 1
    /\ Count(log, "schedule") <= 1
    /\ CycleEnded =>
         /\ Calls(log, "request_heap_shrink")
              = << <<"request_heap_shrink", DecidedAmount>> >>
         /\ Count(log, "schedule") = 1

C4_Witness ==
  /\ pc = "idle"
  /\ ShrinkDecided
  /\ DecidedAmount = MaxAmount
  /\ Count(log, "request_heap_shrink") = 1

\* C5: a cycle whose decision has amount zero, in either direction, calls
\* neither expand nor a shrink request, and calls schedule() exactly once,
\* with the interval configured at that call.
C5_ZeroTakesNoAction ==
  /\ [](ZeroDecided =>
          /\ Count(log, "expand") = 0
          /\ Count(log, "request_heap_shrink") = 0
          /\ Count(log, "schedule") <= 1
          /\ CycleEnded => Count(log, "schedule") = 1)
  /\ [][(ZeroDecided /\ pc = "L60" /\ Stepped)
          => log' = Append(log, <<"schedule", interval>>)]_vars

C5_Witness ==
  pc = "idle" /\ ZeroDecided /\ DecidedExpand /\ Count(log, "schedule") = 1

\* C6: in a cycle that found the flag disabled the policy is not evaluated,
\* neither expand nor a shrink request is called, and no step of the cycle
\* changes the heap capacity or the pending shrink requests.
C6_DisabledCycleIsInert ==
  [][DisabledCycle' =>
       /\ Count(log', "evaluate_heap_resize") = 0
       /\ Count(log', "expand") = 0
       /\ Count(log', "request_heap_shrink") = 0
       /\ Stepped => UNCHANGED <<capacity, pendingShrinks>>]_vars

C6_Witness ==
  pc = "idle" /\ DisabledCycle /\ pendingShrinks # <<>> /\ capacity > 0

\* C7: every schedule() call of execute() passes the value the interval has
\* when the call is made, also when it was reconfigured after the task was
\* created, between two cycles or earlier in the same cycle.
C7_ScheduleUsesCurrentInterval ==
  [][(pc = "L60" /\ Stepped)
       => log' = Append(log, <<"schedule", interval>>)]_vars

C7_Witness ==
  /\ pc = "L61"
  /\ Count(log, "schedule") = 1
  /\ Calls(log, "schedule")[1][2] # createdInterval

\* C8: while the task stays registered and every cycle finds the flag
\* enabled, every return of execute() leaves exactly one pending invocation
\* and execute() runs again and again, whatever the policy decides and
\* whether expand succeeds or fails.
C8_LoopNeverStops ==
  ([]registered /\ []~DisabledCycle)
    => /\ [](pc \in {"L61", "idle"} => pending = 1)
       /\ []<>(pc = "L39")

C8_Witness ==
  pc = "L39" /\ registered /\ GrowDecided /\ ExpandFailed

\* C9: a shrink request is not awaited: the step after the request is the
\* reschedule, which can be taken while the request is still pending, and no
\* step of execute() removes or repeats a pending request.
C9_ShrinkIsFireAndForget ==
  /\ [](pc = "L60" => ENABLED Reschedule)
  /\ [][Stepped =>
          \/ pendingShrinks' = pendingShrinks
          \/ /\ pc = "L56"
             /\ pc' = "L60"
             /\ pendingShrinks' = Append(pendingShrinks, resize_amount)]_vars

C9_Witness ==
  /\ pc = "idle"
  /\ pending = 1
  /\ ShrinkDecided
  /\ pendingShrinks # <<>>
  /\ pendingShrinks[Len(pendingShrinks)] = DecidedAmount

\* C10: the task holds a resource scope exactly from its acquisition to the
\* end of the same cycle: none at entry, none after any return.
C10_ScopeBalanced ==
  rmDepth = IF pc \in {"L48", "L50", "L53", "inExpand", "L56", "L60", "L61"}
              THEN 1 ELSE 0

C10_Witness ==
  pc = "idle" /\ rmDepth = 0 /\ GrowDecided /\ ExpandSucceeded

\* the cycle in the record read the flag as enabled
EnabledCycle ==
  /\ Count(log, "read_flag") > 0
  /\ Calls(log, "read_flag")[1][2] = TRUE

\* the place of a call in the order of one cycle
Rank(op) ==
  CASE op = "read_flag" -> 1
    [] op = "evaluate_heap_resize" -> 2
    [] op = "expand" -> 3
    [] op = "request_heap_shrink" -> 3
    [] op = "expand_returned" -> 4
    [] op = "schedule" -> 5
    [] OTHER -> 0

\* C11: in an enabled cycle the calls come in the order evaluate, heap call,
\* schedule: the policy is evaluated exactly once and before any heap call,
\* schedule() comes after the heap call the decision asks for, and for Grow
\* only after expand has returned, never while expand is running.
C11_StepsInOrder ==
  EnabledCycle =>
    /\ \A i \in 1..(Len(log) - 1) : Rank(log[i][1]) < Rank(log[i + 1][1])
    /\ Count(log, "evaluate_heap_resize") <= 1
    /\ (Count(log, "expand") + Count(log, "request_heap_shrink") > 0) => Decided
    /\ pc = "inExpand" => Count(log, "schedule") = 0
    /\ Count(log, "schedule") > 0 =>
         /\ Count(log, "evaluate_heap_resize") = 1
         /\ GrowDecided =>
              (Count(log, "expand") = 1 /\ Count(log, "expand_returned") = 1)
         /\ ShrinkDecided => Count(log, "request_heap_shrink") = 1

C11_Witness ==
  /\ pc = "L61"
  /\ GrowDecided
  /\ Len(log) = 5
  /\ log[4][1] = "expand_returned"
  /\ log[5][1] = "schedule"

\* executions of execute() that have been entered and have not returned
InFlight == IF pc = "idle" THEN 0 ELSE 1

\* C12 (as claimed): in every reachable state the pending invocations plus
\* the executions in flight are at most one.
C12_AtMostOnePendingOrInFlight == pending + InFlight <= 1

\* C12 (amended): at most one invocation is pending in every reachable state,
\* and pending invocations plus executions in flight are at most one except
\* between the schedule() call at line 60 and the return of that same
\* execute(), where the invocation it scheduled is pending while it is still
\* in flight.
C12_NoOverlap ==
  /\ pending <= 1
  /\ InFlight <= 1
  /\ (pending + InFlight <= 1) \/ (pc = "L61" /\ Count(log, "schedule") = 1)

C12_Witness == pc = "L61" /\ pending = 1 /\ InFlight = 1 /\ registered

\* execute() has the decision and has not yet finished applying it
DecisionInHand == pc \in {"L50", "L53", "inExpand", "L56"}

\* C13: the task holds no lock between the decision and the request: while a
\* decision is in hand the heap can still be resized by a collection pause
\* and an earlier pending shrink can still be serviced, and a new shrink is
\* issued whether or not an earlier one is pending.
C13_NoLockAcrossDecision ==
  /\ ~taskHoldsLock
  /\ DecisionInHand => ENABLED GCResize
  /\ (DecisionInHand /\ pendingShrinks # <<>>) => ENABLED ServiceShrink
  /\ pc = "L56" => ENABLED RequestShrink

\* a second shrink was issued while an earlier one is pending, from a
\* decision taken at a capacity that has changed since
C13_Witness ==
  /\ pc = "L60"
  /\ ShrinkDecided
  /\ Count(log, "request_heap_shrink") = 1
  /\ Len(pendingShrinks) >= 2
  /\ capacity # seenCapacity

\* C14: every shrink the task issues goes to the heap's own entry point
\* request_heap_shrink; execute() never calls
\* G1HeapOperationCallback::request_shrink, so a callback installed behind
\* that interface has recorded nothing.
C14_ShrinkBypassesCallback ==
  /\ callbackRecorded = <<>>
  /\ Count(log, "request_shrink") = 0
  /\ (ShrinkDecided /\ pc \in {"L60", "L61", "idle", "L39"})
       => Calls(log, "request_heap_shrink")
            = << <<"request_heap_shrink", DecidedAmount>> >>

C14_Witness ==
  /\ pc = "L60"
  /\ ShrinkDecided
  /\ pendingShrinks = <<resize_amount>>
  /\ callbackRecorded = <<>>

\* the calls of a cycle, without the flag read and without what expand returned
CallsMade(l) ==
  SelectSeq(l, LAMBDA e : e[1] \notin {"read_flag", "expand_returned"})

\* the calls of a cycle as a function of its three inputs: the flag at the
\* check, the decision of the policy, the interval at the reschedule
ExpectedCalls(f, amount, expand, iv) ==
  IF ~f THEN <<>>
  ELSE << <<"evaluate_heap_resize", amount, expand>> >>
       \o (IF amount > 0
             THEN IF expand
                    THEN << <<"expand", amount, Workers(G1H)>> >>
                    ELSE << <<"request_heap_shrink", amount>> >>
             ELSE <<>>)
       \o << <<"schedule", iv>> >>

\* C15: the task carries nothing from one cycle to the next: the calls a
\* cycle has made when it ends are a function of the flag at its check, of the
\* decision the policy returned in it and of the interval at its reschedule
\* step, whatever happened before.
C15_CallsDependOnInputsOnly ==
  [][/\ (pc = "L60" /\ Stepped)
          => CallsMade(log')
               = ExpectedCalls(Calls(log, "read_flag")[1][2],
                               resize_amount, should_expand, interval)
     /\ (pc = "L42" /\ Stepped)
          => CallsMade(log')
               = ExpectedCalls(Calls(log, "read_flag")[1][2],
                               resize_amount, should_expand, interval)]_vars

\* a cycle that ends after an earlier cycle left a shrink pending and after
\* the interval was reconfigured
C15_Witness ==
  /\ pc = "L61"
  /\ GrowDecided
  /\ pendingShrinks # <<>>
  /\ interval # createdInterval
  /\ Count(log, "expand") = 1

\* expand calls plus shrink requests of the cycle in the record
HeapCalls == Count(log, "expand") + Count(log, "request_heap_shrink")

\* C16: a cycle makes at most one heap-mutation call, expand or shrink
\* request and never both, and only after the policy evaluation of that same
\* cycle returned a positive amount.
C16_AtMostOneHeapCall ==
  /\ HeapCalls <= 1
  /\ HeapCalls = 1 =>
       /\ Decided
       /\ DecidedAmount > 0
       /\ \E i \in 1..Len(log) : \E j \in (i + 1)..Len(log) :
            /\ log[i][1] = "evaluate_heap_resize"
            /\ log[j][1] \in {"expand", "request_heap_shrink"}

C16_Witness ==
  pc = "inExpand" /\ HeapCalls = 1 /\ DecidedAmount = MaxAmount

\* C17: a cycle reads the flag once, first: a cycle that read it enabled
\* evaluates the policy, applies the decision and reschedules even if the flag
\* is disabled later in the cycle, and a cycle that read it disabled makes no
\* policy, expand, shrink or schedule call even if the flag is enabled before
\* it returns.
C17_FlagReadOnce ==
  /\ Count(log, "read_flag") <= 1
  /\ log # <<>> => log[1][1] = "read_flag"
  /\ (EnabledCycle /\ CycleEnded) =>
       /\ Decided
       /\ Count(log, "schedule") = 1
       /\ HeapCalls = (IF DecidedAmount > 0 THEN 1 ELSE 0)
  /\ DisabledCycle => Len(log) = 1

C17_Witness ==
  /\ pc = "L61"
  /\ ~flag
  /\ EnabledCycle
  /\ ShrinkDecided
  /\ Count(log, "schedule") = 1

====
